---- MODULE Spec2Model ----
(***************************************************************************)
(* NeighborList of ase/calculators/neighborlist.py as a state machine.     *)
(*                                                                         *)
(* The state is the attribute dictionary of one NeighborList object plus   *)
(* a record of the last call made on it (operation, argument, exception,   *)
(* return value, whether build was entered).  Lengths are integers in one  *)
(* common unit, so squares and comparisons are exact.                      *)
(*                                                                         *)
(* An attribute is a tagged tuple: <<>> when the object has no such        *)
(* attribute (reading it raises AttributeError), <<"None">> for None and   *)
(* <<"obj", v>> for a value v.                                             *)
(***************************************************************************)
EXTENDS Integers, Sequences, FiniteSets, TLC

\* ---------------------------------------------------------------- bounds
NAtoms == 2
MaxCoord == 2
MaxSkin == 1
MaxCalls == 2

\* ------------------------------------------------------ attribute values
Unset == <<>>
None == <<"None">>
Some(v) == <<"obj", v>>
HasAttr(a) == Len(a) > 0
Val(a) == a[2]

\* ------------------------------------------------------------ input sets
Axes == 1..3
AtomIds == 1..NAtoms
Species == {1, 2}

\* displacements offered to one atom: along x, and the diagonal (1, 1, 0)
Pts == {p \in [Axes -> 0..MaxCoord] :
            p[3] = 0 /\ (p[2] = 0 \/ (p[2] = 1 /\ p[1] = 1))}

\* atom k rests at (0, 0, k-1)
BasePositions == [k \in AtomIds |-> [x \in Axes |-> IF x = 3 THEN k - 1 ELSE 0]]

VecAdd(u, v) == [x \in Axes |-> u[x] + v[x]]

\* position arrays: the resting configuration with at most one atom moved
PositionSet ==
    {[k \in AtomIds |-> IF k = i THEN VecAdd(BasePositions[k], p)
                                 ELSE BasePositions[k]] :
        i \in AtomIds, p \in Pts}

\* species of atom k
Numbers == [k \in AtomIds |-> ((k - 1) % 2) + 1]

\* cell and pbc flags of the systems offered; cells are diagonal, given by
\* their three edge lengths, and one has no volume
Geometries == {[cell |-> <<3, 3, 3>>, pbc |-> <<TRUE, TRUE, TRUE>>],
               [cell |-> <<0, 3, 3>>, pbc |-> <<FALSE, FALSE, FALSE>>]}
CellSet == {g.cell : g \in Geometries}
PbcSet == {g.pbc : g \in Geometries}

\* what get_positions / get_pbc / get_cell of an Atoms object hand out
AtomsSet ==
    {[positions |-> P, cell |-> g.cell, pbc |-> g.pbc] :
        P \in PositionSet, g \in Geometries}

\* physical cutoff radii handed to the constructor
CutoffTables == {[z \in Species |-> 1]}
Skins == 0..MaxSkin

VARIABLES
    cutoffs,    \* self.cutoffs
    skin,       \* self.skin
    positions,  \* self.positions
    pbc,        \* self.pbc
    cell,       \* self.cell
    nbors,      \* self.nbors
    op,         \* last call: "init", "update", "build", "neighbors"
    arg,        \* its argument
    exc,        \* the exception it raised, "none" if it returned
    ret,        \* what it returned: "None", "True", "False", "raised"
    built,      \* whether the call entered build
    lastBuild,  \* positions handed to the most recent build
    ncalls      \* calls made so far

nlvars == <<cutoffs, skin, positions, pbc, cell, nbors,
            op, arg, exc, ret, built, lastBuild, ncalls>>

attrs == <<cutoffs, skin, positions, pbc, cell, nbors>>

\* the body of build past line 16, taken by itself
VARIABLES
    bin,        \* what one run of it reads
    bout        \* the locals it ends with, <<>> before it has run

bvars == <<bin, bout>>

BuildIdle == bin = <<>> /\ bout = <<>>

\* PythonSubProcessCalculator, its worker process and the two pipes
VARIABLES
    proc,       \* self.proc
    ppc,        \* where the parent is
    pop,        \* last call made on the calculator
    pexc,       \* the exception it raised, "none" if it returned
    wpc,        \* where the worker is
    stdin,      \* messages written to the worker and not yet read
    stdout,     \* messages written by the worker and not yet read
    wlog,       \* messages the worker has read, in order
    wreq,       \* the request the worker is computing
    wresults,   \* calc.results inside the worker
    nsent,      \* results messages the worker has sent
    req,        \* the request of the calculate call in progress
    merged,     \* the results message last merged into self.results
    nreq,       \* calculate calls so far
    nenter      \* worker processes started so far

pvars == <<proc, ppc, pop, pexc, wpc, stdin, stdout, wlog, wreq, wresults,
           nsent, req, merged, nreq, nenter>>

ProcIdle ==
    /\ proc = <<>> /\ ppc = "none" /\ pop = "none" /\ pexc = "none"
    /\ wpc = "none" /\ stdin = <<>> /\ stdout = <<>> /\ wlog = <<>>
    /\ wreq = 0 /\ wresults = {} /\ nsent = 0 /\ req = 0 /\ merged = <<>>
    /\ nreq = 0 /\ nenter = 0

vars == <<nlvars, bvars, pvars>>

\* ------------------------------------------------------------- __init__
\* the table stored without the skin added
PhysicalCutoffs(table, sk) == [z \in DOMAIN table |-> table[z]]

\* self.cutoffs = dict([(Z, rc + skin) for Z, rc in cutoffs.items()])
EffectiveCutoffs(table, sk) == [z \in DOMAIN table |-> table[z] + sk]

Init ==
    /\ \E table \in CutoffTables, sk \in Skins :
          /\ cutoffs = EffectiveCutoffs(table, sk)
          /\ skin = sk
    /\ positions = Unset
    /\ pbc = Unset
    /\ cell = Unset
    /\ nbors = Unset
    /\ op = "init"
    /\ arg = <<>>
    /\ exc = "none"
    /\ ret = "None"
    /\ built = FALSE
    /\ lastBuild = Unset
    /\ ncalls = 0
    /\ BuildIdle
    /\ ProcIdle

\* --------------------------------------------------------------- update
Sq(n) == n * n

SetMax(S) == CHOOSE m \in S : \A n \in S : n <= m

\* ((atoms.positions - self.positions)**2).max()
MaxSqComponent(now, then) ==
    SetMax({Sq(now[k][x] - then[k][x]) : k \in AtomIds, x \in Axes})

\* the comparison with >= in place of >
NeedsBuildGE(selfPositions, atomsPositions, sk) ==
    \/ selfPositions = None
    \/ MaxSqComponent(atomsPositions, Val(selfPositions)) >= Sq(sk)

\* self.positions is None or (...).max() > self.skin**2
NeedsBuild(selfPositions, atomsPositions, sk) ==
    \/ selfPositions = None
    \/ MaxSqComponent(atomsPositions, Val(selfPositions)) > Sq(sk)

\* --------------------------------------------------------------- build
\* Lines 12-14 run, then line 16 reads the global name cutoffs, which the
\* module never binds: NameError.  The local name positions is dropped.
BuildBody(atoms) ==
    /\ lastBuild' = Some(atoms.positions)
    /\ pbc' = Some(atoms.pbc)
    /\ cell' = Some(atoms.cell)
    /\ UNCHANGED <<cutoffs, skin, positions, nbors>>
    /\ built' = TRUE
    /\ exc' = "NameError"
    /\ ret' = "raised"

Build(atoms) ==
    /\ ncalls < MaxCalls
    /\ ncalls' = ncalls + 1
    /\ op' = "build"
    /\ arg' = <<"atoms", atoms>>
    /\ BuildBody(atoms)
    /\ UNCHANGED <<bvars, pvars>>

Update(atoms) ==
    /\ ncalls < MaxCalls
    /\ ncalls' = ncalls + 1
    /\ op' = "update"
    /\ arg' = <<"atoms", atoms>>
    /\ IF ~HasAttr(positions)
       THEN \* self.positions does not exist
            /\ UNCHANGED <<attrs, lastBuild>>
            /\ built' = FALSE
            /\ exc' = "AttributeError"
            /\ ret' = "raised"
       ELSE IF NeedsBuild(positions, atoms.positions, skin)
            THEN BuildBody(atoms)
            ELSE \* falls off the end of the function
                 /\ UNCHANGED <<attrs, lastBuild>>
                 /\ built' = FALSE
                 /\ exc' = "none"
                 /\ ret' = "None"
    /\ UNCHANGED <<bvars, pvars>>

\* ------------------------------------------------------------ neighbors
\* return self.nbors[a], displ
\* a is a Python index: 0..n-1 from the front, -n..-1 from the back
IndexSet == (0 - NAtoms - 1)..NAtoms

NeighborsExc(selfNbors, a) ==
    IF ~HasAttr(selfNbors) THEN "AttributeError"
    ELSE IF a >= Len(Val(selfNbors)) \/ a < 0 - Len(Val(selfNbors))
         THEN "IndexError"
         ELSE "NameError"

Neighbors(a) ==
    /\ ncalls < MaxCalls
    /\ ncalls' = ncalls + 1
    /\ op' = "neighbors"
    /\ arg' = <<"index", a>>
    /\ UNCHANGED <<attrs, lastBuild>>
    /\ built' = FALSE
    /\ exc' = NeighborsExc(nbors, a)
    /\ ret' = "raised"
    /\ UNCHANGED <<bvars, pvars>>

\* ------------------------------------------------------- specifications
Next ==
    \/ \E atoms \in AtomsSet : Update(atoms)
    \/ \E atoms \in AtomsSet : Build(atoms)
    \/ \E a \in IndexSet : Neighbors(a)

\* the object as the constructor leaves it
Spec == Init /\ [][Next]_vars

\* The receiver states update and neighbors read: __init__ binds neither
\* positions nor nbors, so whoever makes the calls supplies them.  positions
\* is None or an array of the atom count, nbors a list with one entry per
\* atom.
NborLists == {[k \in AtomIds |-> AtomIds \ {k}]}

InitAttr ==
    /\ \E table \in CutoffTables, sk \in Skins :
          /\ cutoffs = EffectiveCutoffs(table, sk)
          /\ skin = sk
    /\ positions \in {Unset, None} \cup {Some(P) : P \in PositionSet}
    /\ pbc = Unset
    /\ cell = Unset
    /\ nbors \in {Unset} \cup {Some(L) : L \in NborLists}
    /\ op = "init"
    /\ arg = <<>>
    /\ exc = "none"
    /\ ret = "None"
    /\ built = FALSE
    /\ lastBuild = Unset
    /\ ncalls = 0
    /\ BuildIdle
    /\ ProcIdle

SpecAttr == InitAttr /\ [][Next]_vars

TypeOK ==
    /\ skin \in Skins
    /\ positions \in {Unset, None} \cup {Some(P) : P \in PositionSet}
    /\ pbc \in {Unset} \cup {Some(b) : b \in PbcSet}
    /\ cell \in {Unset} \cup {Some(c) : c \in CellSet}
    /\ exc \in {"none", "AttributeError", "NameError", "IndexError"}
    /\ ret \in {"None", "True", "False", "raised"}
    /\ built \in BOOLEAN
    /\ ncalls \in 0..MaxCalls

\* ======================================================== properties
IsArray(a) == HasAttr(a) /\ a # None

\* some atom's Euclidean displacement between two arrays is longer than sk
EuclidExceeds(now, then, sk) ==
    \E k \in AtomIds :
        Sq(now[k][1] - then[k][1]) + Sq(now[k][2] - then[k][2])
            + Sq(now[k][3] - then[k][3]) > Sq(sk)

C2_RebuildBeyondSkin ==
    [][(op' = "update" /\ HasAttr(lastBuild)
          /\ EuclidExceeds(arg'[2].positions, Val(lastBuild), skin))
          => built']_vars

C4_FirstUpdateBuilds ==
    /\ (ncalls = 0 => ~IsArray(positions))
    /\ ((ncalls = 1 /\ op = "update")
          => (built /\ exc = "none" /\ positions = Some(arg[2].positions)))
    /\ ((built /\ exc = "none") => positions = lastBuild)

\* C5: a call whose build fails raises, and leaves the stored cell, pbc
\* flags, cached positions and pair list as they were before the call.
C5_FailedBuildKeepsState ==
    [][(built' /\ exc' # "none")
          => (cell' = cell /\ pbc' = pbc /\ positions' = positions
              /\ nbors' = nbors)]_vars

ImageShifts(flags) ==
    {n \in [Axes -> -1..1] : \A x \in Axes : ~flags[x] => n[x] = 0}

ZeroShift == [x \in Axes |-> 0]

\* position of the image n of atom j minus position of atom i
Displacement(P, c, i, j, n) == [x \in Axes |-> P[j][x] + n[x] * c[x] - P[i][x]]

NormSq(d) == Sq(d[1]) + Sq(d[2]) + Sq(d[3])

\* the stored cutoffs of the two atoms' species, added
CombinedCutoff(i, j) == cutoffs[Numbers[i]] + cutoffs[Numbers[j]]

\* the (i, j, image shift) triples the object holds: self.nbors[i] lists the
\* neighbours of atom i, no image shift is kept with them
StoredPairs ==
    IF HasAttr(nbors)
    THEN {t \in AtomIds \X AtomIds \X {ZeroShift} : t[2] \in Val(nbors)[t[1]]}
    ELSE {}

\* C8: after a build, every stored pair is no longer than the combined
\* cutoff of its two atoms, and every pair of an atom and an image of
\* another (or a shifted image of itself) within the combined cutoff is
\* stored, in one direction or the other.
C8_CutoffCorrect ==
    built =>
        LET P == Val(lastBuild)
            c == Val(cell)
        IN  /\ \A t \in StoredPairs :
                 NormSq(Displacement(P, c, t[1], t[2], t[3]))
                     <= Sq(CombinedCutoff(t[1], t[2]))
            /\ \A i, j \in AtomIds : \A n \in ImageShifts(Val(pbc)) :
                 ((i # j \/ n # ZeroShift)
                    /\ NormSq(Displacement(P, c, i, j, n))
                           <= Sq(CombinedCutoff(i, j)))
                 => (\/ <<i, j, n>> \in StoredPairs
                     \/ <<j, i, [x \in Axes |-> 0 - n[x]]>> \in StoredPairs)

\* C10: with skin 0, once a build has been given positions P0, an update
\* with any other positions enters build.
C10_ZeroSkinRebuilds ==
    [][(skin = 0 /\ op' = "update" /\ HasAttr(lastBuild)
          /\ arg'[2].positions # Val(lastBuild))
          => built']_vars
\* ------------------------------------------ constructor, any arguments
\* __init__ takes whatever numbers it is given: skins and radii below zero
\* are among them
CtorSkins == -1..MaxSkin
CtorTables == {[z \in Species |-> 1],
               [z \in Species |-> IF z = 1 THEN -1 ELSE 1]}

InitCtor ==
    /\ \E table \in CtorTables, sk \in CtorSkins :
          /\ cutoffs = EffectiveCutoffs(table, sk)
          /\ skin = sk
    /\ positions = Unset
    /\ pbc = Unset
    /\ cell = Unset
    /\ nbors = Unset
    /\ op = "init"
    /\ arg = <<>>
    /\ exc = "none"
    /\ ret = "None"
    /\ built = FALSE
    /\ lastBuild = Unset
    /\ ncalls = 0
    /\ BuildIdle
    /\ ProcIdle

SpecCtor == InitCtor /\ [][Next]_vars

\* C11: a constructor given a skin or a cutoff radius below zero raises a
\* configuration error, so no object holds a skin below zero or a stored
\* cutoff smaller than its skin.
C11_NegativeRejected ==
    (skin < 0 \/ \E z \in Species : cutoffs[z] - skin < 0)
        => (op = "init" /\ exc = "ConfigurationError")

\* C12: neighbors(a) raises IndexError when a is outside 0..N-1, N the atom
\* count, and returns the neighbours of atom a when a is inside it.
C12_NeighborsIndex ==
    op = "neighbors" =>
        IF arg[2] \in 0..(NAtoms - 1) THEN exc = "none"
                                      ELSE exc = "IndexError"

\* C14: every stored cutoff is the radius given to the constructor plus
\* skin, hence no smaller than that radius, and no call changes the stored
\* cutoffs or skin.
C14_EffectiveCutoffs ==
    /\ [](\E table \in CutoffTables : \A z \in Species :
             cutoffs[z] = table[z] + skin /\ table[z] <= cutoffs[z])
    /\ [][cutoffs' = cutoffs /\ skin' = skin]_vars

\* an object with a skin above zero on which build and another call ran
C14_Witness ==
    /\ skin > 0 /\ HasAttr(lastBuild) /\ ncalls = MaxCalls
    /\ \A z \in Species : cutoffs[z] > 1
\* -------------------------------------------- build, lines 16 to 30
\* What the statements after line 14 compute, with cutoffs, npy and sqrt
\* taken as the stored cutoff table, numpy and math.sqrt; as the module
\* stands these names are unbound and line 16 raises before any of it runs.
\* Cells are diagonal, so the inverse is diagonal too, and a fractional
\* coordinate is a pair <<numerator, denominator>> with denominator > 0.
MaxRcmax == 3

NLIdle ==
    /\ cutoffs = <<>> /\ skin = 0
    /\ positions = Unset /\ pbc = Unset /\ cell = Unset /\ nbors = Unset
    /\ op = "none" /\ arg = <<>> /\ exc = "none" /\ ret = "None"
    /\ built = FALSE /\ lastBuild = Unset /\ ncalls = 0

\* arrays in which the first atom sits anywhere along x, either side of 0
BuildPositions ==
    {[k \in AtomIds |-> [x \in Axes |-> IF k = 1 /\ x = 1 THEN c ELSE 0]] :
        c \in (0 - MaxCoord)..MaxCoord}

BuildCells == {<<1, 2, 3>>, <<2, 2, 2>>, <<0, 3, 3>>}
BuildPbcs == {<<TRUE, TRUE, TRUE>>, <<TRUE, FALSE, FALSE>>,
              <<FALSE, FALSE, FALSE>>}

\* self.positions, and what atoms.get_positions / get_cell / get_pbc give,
\* and the value of rcmax
BuildInputs ==
    [selfPositions : {Unset} \cup {Some(P) : P \in BuildPositions},
     positions : BuildPositions,
     cell : BuildCells,
     pbc : BuildPbcs,
     rcmax : 0..MaxRcmax]

\* npy.linalg.inv(self.cell) raises for a matrix without an inverse
Singular(c) == \E x \in Axes : c[x] = 0

\* the diagonal of the inverse
Inverse(c) == [x \in Axes |-> <<1, c[x]>>]

\* npy.dot(P, icell)
Scale(P, icell) ==
    [k \in AtomIds |-> [x \in Axes |-> <<P[k][x] * icell[x][1], icell[x][2]>>]]

\* q % 1.0: floored, the result has the sign of the divisor
Mod1(q) == <<q[1] % q[2], q[2]>>

\* 1 / sqrt(npy.dot(v, v)) for v = icell[:, x]
SlabThickness(icell, x) == icell[x][2] \div icell[x][1]

\* the count without the added 1
RepeatCountNoPlus(rcmax, h) == rcmax \div h

\* int(rcmax / h) + 1
RepeatCount(rcmax, h) == (rcmax \div h) + 1

\* line 19: scaled = npy.dot(self.positions, icell)
Scaled(in) == Scale(Val(in.selfPositions), Inverse(in.cell))

NoLocals(e) == [exc |-> e, N |-> <<>>, scaled |-> <<>>, R |-> <<>>]

BuildLocals(in) ==
    IF Singular(in.cell) THEN NoLocals("LinAlgError")
    ELSE IF ~HasAttr(in.selfPositions) THEN NoLocals("AttributeError")
    ELSE LET icell == Inverse(in.cell)
             scaled == Scaled(in)
             wrapped == [k \in AtomIds |-> [x \in Axes |->
                            IF in.pbc[x] THEN Mod1(scaled[k][x])
                                         ELSE scaled[k][x]]]
         IN  [exc |-> "none",
              N |-> [x \in Axes |->
                        IF in.pbc[x]
                        THEN RepeatCount(in.rcmax, SlabThickness(icell, x))
                        ELSE 0],
              scaled |-> wrapped,
              R |-> [k \in AtomIds |-> [x \in Axes |->
                        (wrapped[k][x][1] * in.cell[x]) \div wrapped[k][x][2]]]]

InitBuild ==
    /\ bin \in BuildInputs
    /\ bout = Unset
    /\ NLIdle
    /\ ProcIdle

RunBuildBody ==
    /\ bout = Unset
    /\ bout' = Some(BuildLocals(bin))
    /\ UNCHANGED <<bin, nlvars, pvars>>

NextBuild == RunBuildBody

SpecBuild == InitBuild /\ [][NextBuild]_vars

BuildRan == HasAttr(bout) /\ Val(bout).exc = "none"

MaxRequests == 2
MaxEnters == 2

PackMsg == <<"pack", 0>>
StopMsg == <<"stop", 0>>
ArgsMsg(r) == <<"args", r>>
ResultsMsg(S) == <<"results", S>>

\* a misspelt instruction
CalculateMisspelt == <<"calc", 0>>

\* line 115: self._send('calculate')
CalculateMsg == <<"calculate", 0>>

\* the worker has left main(), by break or by an exception
Terminated == wpc \in {"exited", "died", "bad_instruction", "bad_args"}

\* pickle.dump and flush to a pipe whose reader is gone
PipeBroken == Terminated

\* a guard that asks for an attached process
ProcAttached(p) == HasAttr(p) /\ p # None

\* line 88: hasattr(self, 'proc')
SetRaises(p) == HasAttr(p)

\* results kept from one calculation to the next
NotCleared(results) == results

\* line 154: calc.results.clear()
Cleared(results) == {}

\* two results messages for one request
ReplyTwice(results) == <<ResultsMsg(results), ResultsMsg(results)>>

\* line 161: send(results)
Reply(results) == <<ResultsMsg(results)>>

\* super().__init__() is running; proc is not assigned yet
InitProc ==
    /\ proc = Unset
    /\ ppc = "ctor"
    /\ pop = "init"
    /\ pexc = "none"
    /\ wpc = "none"
    /\ stdin = <<>>
    /\ stdout = <<>>
    /\ wlog = <<>>
    /\ wreq = 0
    /\ wresults = {}
    /\ nsent = 0
    /\ req = 0
    /\ merged = <<>>
    /\ nreq = 0
    /\ nenter = 0
    /\ NLIdle
    /\ BuildIdle

worker == <<wpc, stdin, stdout, wlog, wreq, wresults, nsent>>

\* lines 84-85
FinishInit ==
    /\ ppc = "ctor"
    /\ proc' = None
    /\ ppc' = "out"
    /\ pop' = "init"
    /\ pexc' = "none"
    /\ UNCHANGED <<worker, req, merged, nreq, nenter>>
    /\ UNCHANGED <<nlvars, bvars>>

\* set(**kwargs), from the base constructor or from anyone later
Set ==
    /\ ppc \in {"ctor", "out", "in"}
    /\ pop' = "set"
    /\ pexc' = IF SetRaises(proc) THEN "RuntimeError" ELSE "none"
    /\ UNCHANGED <<proc, ppc, worker, req, merged, nreq, nenter>>
    /\ UNCHANGED <<nlvars, bvars>>

\* __enter__: a with statement begins
Enter ==
    /\ ppc \in {"out", "in"}
    /\ nenter < MaxEnters
    /\ nenter' = nenter + 1
    /\ pop' = "enter"
    /\ IF proc # None
       THEN \* assert self.proc is None; the block is not entered
            /\ pexc' = "AssertionError"
            /\ UNCHANGED <<proc, ppc, worker>>
       ELSE /\ pexc' = "none"
            /\ proc' = Some("Popen")
            /\ ppc' = "in"
            /\ wpc' = "recv_pack"
            /\ stdin' = <<PackMsg>>
            /\ stdout' = <<>>
            /\ wlog' = <<>>
            /\ wreq' = 0
            /\ wresults' = {}
            /\ nsent' = 0
    /\ UNCHANGED <<req, merged, nreq>>
    /\ UNCHANGED <<nlvars, bvars>>

\* calculate up to line 115
Calculate ==
    /\ ppc \in {"out", "in"}
    /\ nreq < MaxRequests
    /\ nreq' = nreq + 1
    /\ req' = nreq + 1
    /\ pop' = "calculate"
    /\ IF ~ProcAttached(proc)
       THEN \* self.proc.stdin with proc None
            /\ pexc' = "AttributeError"
            /\ UNCHANGED <<ppc, stdin>>
       ELSE IF PipeBroken
            THEN /\ pexc' = "BrokenPipeError"
                 /\ UNCHANGED <<ppc, stdin>>
            ELSE /\ pexc' = "none"
                 /\ stdin' = Append(stdin, CalculateMsg)
                 /\ ppc' = "send_args"
    /\ UNCHANGED <<proc, wpc, stdout, wlog, wreq, wresults, nsent, merged,
                   nenter>>
    /\ UNCHANGED <<nlvars, bvars>>

\* line 116
SendArgs ==
    /\ ppc = "send_args"
    /\ IF PipeBroken
       THEN /\ pexc' = "BrokenPipeError"
            /\ ppc' = "in"
            /\ UNCHANGED stdin
       ELSE /\ stdin' = Append(stdin, ArgsMsg(req))
            /\ ppc' = "recv"
            /\ UNCHANGED pexc
    /\ UNCHANGED <<proc, pop, wpc, stdout, wlog, wreq, wresults, nsent, req,
                   merged, nreq, nenter>>
    /\ UNCHANGED <<nlvars, bvars>>

\* lines 123-124
RecvResults ==
    /\ ppc = "recv"
    /\ stdout # <<>>
    /\ merged' = Head(stdout)
    /\ stdout' = Tail(stdout)
    /\ ppc' = "in"
    /\ pexc' = "none"
    /\ UNCHANGED <<proc, pop, wpc, stdin, wlog, wreq, wresults, nsent, req,
                   nreq, nenter>>
    /\ UNCHANGED <<nlvars, bvars>>

\* line 123 when the worker is gone and nothing is left to read
RecvEOF ==
    /\ ppc = "recv"
    /\ stdout = <<>>
    /\ Terminated
    /\ ppc' = "in"
    /\ pexc' = "EOFError"
    /\ UNCHANGED <<proc, pop, worker, req, merged, nreq, nenter>>
    /\ UNCHANGED <<nlvars, bvars>>

\* __exit__, line 110: the with block ends (or __exit__ is called by hand)
ExitSend ==
    /\ ppc \in {"in", "out"}
    /\ pop' = "exit"
    /\ IF ~ProcAttached(proc)
       THEN \* self.proc.stdin with proc None
            /\ pexc' = "AttributeError"
            /\ ppc' = "out"
            /\ UNCHANGED stdin
       ELSE IF PipeBroken
       THEN \* the exception leaves __exit__ before lines 111-112
            /\ pexc' = "BrokenPipeError"
            /\ ppc' = "out"
            /\ UNCHANGED stdin
       ELSE /\ pexc' = "none"
            /\ stdin' = Append(stdin, StopMsg)
            /\ ppc' = "wait"
    /\ UNCHANGED <<proc, wpc, stdout, wlog, wreq, wresults, nsent, req,
                   merged, nreq, nenter>>
    /\ UNCHANGED <<nlvars, bvars>>

\* lines 111-112
ExitWait ==
    /\ ppc = "wait"
    /\ Terminated
    /\ proc' = None
    /\ ppc' = "out"
    /\ UNCHANGED <<pop, pexc, worker, req, merged, nreq, nenter>>
    /\ UNCHANGED <<nlvars, bvars>>

parent == <<proc, ppc, pop, pexc, req, merged, nreq, nenter>>

\* line 139
WorkerRecvPack ==
    /\ wpc = "recv_pack"
    /\ stdin # <<>>
    /\ wlog' = Append(wlog, Head(stdin))
    /\ stdin' = Tail(stdin)
    /\ wpc' = "unpack"
    /\ UNCHANGED <<parent, stdout, wreq, wresults, nsent>>
    /\ UNCHANGED <<nlvars, bvars>>

\* line 140: the calculator is built, or building it raises
WorkerUnpack ==
    /\ wpc = "unpack"
    /\ \/ wlog[1][1] = "pack" /\ wpc' = "recv_instr"
       \/ wpc' = "died"
    /\ UNCHANGED <<parent, stdin, stdout, wlog, wreq, wresults, nsent>>
    /\ UNCHANGED <<nlvars, bvars>>

\* lines 143-147
WorkerRecvInstruction ==
    /\ wpc = "recv_instr"
    /\ stdin # <<>>
    /\ wlog' = Append(wlog, Head(stdin))
    /\ stdin' = Tail(stdin)
    /\ wpc' = IF Head(stdin)[1] = "stop" THEN "exited"
              ELSE IF Head(stdin)[1] # "calculate" THEN "bad_instruction"
              ELSE "recv_args"
    /\ UNCHANGED <<parent, stdout, wreq, wresults, nsent>>
    /\ UNCHANGED <<nlvars, bvars>>

\* line 149
WorkerRecvArgs ==
    /\ wpc = "recv_args"
    /\ stdin # <<>>
    /\ wlog' = Append(wlog, Head(stdin))
    /\ stdin' = Tail(stdin)
    /\ IF Head(stdin)[1] = "args"
       THEN wreq' = Head(stdin)[2] /\ wpc' = "calc"
       ELSE wpc' = "bad_args" /\ UNCHANGED wreq
    /\ UNCHANGED <<parent, stdout, wresults, nsent>>
    /\ UNCHANGED <<nlvars, bvars>>

\* lines 154-161
WorkerCalculate ==
    /\ wpc = "calc"
    /\ wresults' = Cleared(wresults) \cup {wreq}
    /\ stdout' = stdout \o Reply(wresults')
    /\ nsent' = nsent + Len(Reply(wresults'))
    /\ wpc' = "recv_instr"
    /\ UNCHANGED <<parent, stdin, wlog, wreq>>
    /\ UNCHANGED <<nlvars, bvars>>

\* lines 154-158 when calc.calculate raises
WorkerCalculateFails ==
    /\ wpc = "calc"
    /\ wresults' = Cleared(wresults)
    /\ wpc' = "died"
    /\ UNCHANGED <<parent, stdin, stdout, wlog, wreq, nsent>>
    /\ UNCHANGED <<nlvars, bvars>>

NextProc ==
    \/ FinishInit
    \/ Set
    \/ Enter
    \/ Calculate
    \/ SendArgs
    \/ RecvResults
    \/ RecvEOF
    \/ ExitSend
    \/ ExitWait
    \/ WorkerRecvPack
    \/ WorkerUnpack
    \/ WorkerRecvInstruction
    \/ WorkerRecvArgs
    \/ WorkerCalculate
    \/ WorkerCalculateFails

SpecProc == InitProc /\ [][NextProc]_vars
\* C13: once a with block has ended, however it ended, no process is
\* attached (proc is None) and the worker has terminated.
C13_WorkerLivesWithBlock ==
    ppc = "out" => (proc = None /\ (wpc = "none" \/ Terminated))

\* pack first, then pairs of 'calculate' and a request, 'stop' only last
WellFormedStream(log) ==
    \A i \in 1..Len(log) :
        IF i = 1 THEN log[i][1] = "pack"
        ELSE IF i % 2 = 0
             THEN /\ log[i][1] \in {"calculate", "stop"}
                  /\ (log[i][1] = "stop" => i = Len(log))
             ELSE log[i][1] = "args" /\ log[i - 1][1] = "calculate"

\* C17: what the worker reads is the packed calculator, then 'calculate'
\* and a request any number of times, then 'stop'; it never raises on a
\* bad instruction and never finds something else where a request is due.
C17_MessageStream ==
    /\ WellFormedStream(wlog)
    /\ wpc \notin {"bad_instruction", "bad_args"}

\* a worker that served a request and was then stopped
C17_Witness ==
    /\ wpc = "exited"
    /\ Len(wlog) = 4
    /\ wlog[3][1] = "args"

NumRead(kind) == Cardinality({i \in 1..Len(wlog) : wlog[i][1] = kind})

\* C18: the worker sends one results message for each request it has
\* computed and none otherwise, a results message is in the pipe only
\* while the parent waits for it, a calculate call that returns has merged
\* the results of its own request, and parent and worker never both wait
\* for a message from the other.
C18_OneReplyPerRequest ==
    /\ Len(stdout) <= 1
    /\ (stdout # <<>> => ppc = "recv")
    /\ nsent <= NumRead("args")
    /\ (wpc \in {"recv_instr", "exited"} => nsent = NumRead("args"))
    /\ ((pop = "calculate" /\ pexc = "none" /\ ppc = "in")
          => (merged # <<>> /\ req \in merged[2]))
    /\ ~(/\ ppc = "recv" /\ stdout = <<>>
         /\ wpc \in {"recv_pack", "recv_instr", "recv_args"}
         /\ stdin = <<>>)

\* the second calculate call of one with block has returned
C18_Witness ==
    /\ pop = "calculate" /\ pexc = "none" /\ ppc = "in"
    /\ req = 2 /\ nsent = 2 /\ stdout = <<>>

\* C19: a results message holds the values of the request it answers and
\* nothing kept from an earlier request.
C19_ResultsCleared ==
    /\ \A i \in 1..Len(stdout) : stdout[i][2] \subseteq {wreq}
    /\ ((pop = "calculate" /\ pexc = "none" /\ ppc = "in")
          => merged[2] \subseteq {req})

\* the answer to a second request of the same worker is in the pipe
C19_Witness ==
    /\ nsent = 2 /\ wreq = 2
    /\ stdout # <<>>

\* C20: set raises RuntimeError on every call made after the constructor
\* has assigned proc, with or without a process attached, and returns
\* only when called before that.
C20_SetRaises ==
    pop = "set" =>
        IF ppc = "ctor" THEN pexc = "none" ELSE pexc = "RuntimeError"

\* set refused after a with block has ended and no process is attached
C20_Witness ==
    /\ pop = "set" /\ pexc = "RuntimeError"
    /\ proc = None /\ ppc = "out" /\ nenter > 0
====
